---- MODULE Spec2Model ----
(***************************************************************************)
(* A model of rosapi.py: a telnet client of a MikroTik RouterOS console.   *)
(*                                                                         *)
(* Text is a sequence of characters.  A character is a TLA+ string: the    *)
(* control characters are named (ESC, CR, LF), and a keyword of the        *)
(* console's output that the patterns of the source name literally         *)
(* ("name=", "ranges=", ...) is one character of the model.                *)
(***************************************************************************)
EXTENDS Integers, Sequences, FiniteSets, TLC

ESC == "ESC"
CR == "CR"
LF == "LF"
SP == " "

Digits == {"0", "1", "2", "3", "4", "5", "6", "7", "8", "9"}

(***************************************************************************)
(* Bounds of the model.                                                    *)
(***************************************************************************)
\* number of pieces an input of untag is assembled from
MaxPieces == 3
\* length of a text handed to check_result
MaxResultLen == 7
\* the number of pieces (failure lines and others) a text handed to check_result
\* is assembled from
MaxResultPieces == 3
\* number of pieces a capture handed to get_address_pool is assembled from
MaxPoolPieces == 4
\* number of rows of a listing
MaxRows == 2
\* number of operations the callers start, all together
MaxOps == 2
\* number of characters the peer emits during login
MaxEmits == 4

(***************************************************************************)
(* State.                                                                  *)
(***************************************************************************)
VARIABLES
    call,       \* the call of a function under examination: its name and arguments
    ret,        \* the sequence of results the call has produced so far
    lpc,        \* TelnetCtrl.login: the statement it is at
    username,   \* the username login was given ("" for none)
    tn,         \* the telnet stream: "none" before it is opened, then "open" (it is never closed)
    cooked,     \* the bytes received and not yet read, each with the command it answers
    sent,       \* what was written to the stream, in order
    log,        \* the lines the loggers wrote
    rx,         \* everything the peer emitted so far
    timedout,   \* the waits of login that returned at their timeout
    eof,        \* the peer has closed the connection
    pc,         \* each caller's position in the operation it runs
    op,         \* each caller's operation: its name and the index of its command in sent
    out,        \* each caller's last finished operation and its outcome
    nops,       \* the number of operations the callers have started
    replied     \* the number of commands the router has answered

fnvars == <<call, ret>>
loginvars == <<lpc, username, rx, timedout, eof>>
streamvars == <<tn, cooked, sent, log>>
opvars == <<pc, op, out, nops, replied>>
vars == <<call, ret, lpc, username, tn, cooked, sent, log, rx, timedout, eof,
          pc, op, out, nops, replied>>

(***************************************************************************)
(* Helpers on text.                                                        *)
(***************************************************************************)
RECURSIVE Concat(_)
Concat(ss) == IF ss = <<>> THEN <<>> ELSE Head(ss) \o Concat(Tail(ss))

\* text `pat` occurs in `text` at position i
OccursAt(text, pat, i) ==
    /\ i >= 1
    /\ i + Len(pat) - 1 <= Len(text)
    /\ SubSeq(text, i, i + Len(pat) - 1) = pat

Contains(text, pat) == \E i \in 1..Len(text) : OccursAt(text, pat, i)

\* all sequences over S of length at most n
SeqsUpTo(S, n) == UNION {[1..k -> S] : k \in 0..n}

(***************************************************************************)
(* str.replace(old, ""): the non-overlapping occurrences of `old`, found   *)
(* from left to right, are deleted.                                        *)
(***************************************************************************)
RECURSIVE replace(_, _)
replace(text, old) ==
    IF Len(text) < Len(old) THEN text
    ELSE IF SubSeq(text, 1, Len(old)) = old
         THEN replace(SubSeq(text, Len(old) + 1, Len(text)), old)
         ELSE <<Head(text)>> \o replace(Tail(text), old)

\* the six control sequences untag names, in the order it deletes them
TagReset == <<ESC, "[", "m">>
TagGreen == <<ESC, "[", "3", "2", "m">>
TagBold == <<ESC, "[", "1", "m">>
TagBoldRed == <<ESC, "[", "3", "1", ";", "1", "m">>
TagEraseEol == <<ESC, "[", "K">>
TagCyan == <<ESC, "[", "3", "6", "m">>

Tags == <<TagReset, TagGreen, TagBold, TagBoldRed, TagEraseEol, TagCyan>>

untag(text) ==
    replace(replace(replace(replace(replace(replace(text,
        TagReset), TagGreen), TagBold), TagBoldRed), TagEraseEol), TagCyan)

(***************************************************************************)
(* Regular expressions, as re.findall applies them.  A pattern is a        *)
(* sequence of elements:                                                   *)
(*   Lit(c)        the character c                                         *)
(*   One(cls, cap) one character of the class (a group of one digit)       *)
(*   Star(cls, greedy, cap, min)  at least `min` characters of the class,  *)
(*                 as many as possible when greedy, as few as possible     *)
(*                 when lazy (a dot-star or digit-plus group)              *)
(* The classes: "dot" is every character but the newline, "any" is every   *)
(* character, "digit" is 0..9.  A match is searched by backtracking in the *)
(* order of Python's engine, so the first match found is the one re finds. *)
(***************************************************************************)
Lit(c) == [k |-> "lit", c |-> c, greedy |-> FALSE, cap |-> FALSE, min |-> 1]
One(cls, cap) == [k |-> "one", c |-> cls, greedy |-> FALSE, cap |-> cap, min |-> 1]
Star(cls, greedy, cap, min) == [k |-> "star", c |-> cls, greedy |-> greedy, cap |-> cap, min |-> min]

\* a literal string of the pattern, one element per character
Lits(cs) == [i \in 1..Len(cs) |-> Lit(cs[i])]

InClass(ch, cls) ==
    CASE cls = "dot" -> ch # LF
      [] cls = "any" -> TRUE
      [] cls = "digit" -> ch \in Digits

Min(S) == CHOOSE x \in S : \A y \in S : x <= y

\* the number of characters of the class that text t holds from position i on
RunLen(t, i, cls) ==
    LET others == {j \in i..Len(t) : ~InClass(t[j], cls)}
    IN  IF others = {} THEN Len(t) - i + 1 ELSE Min(others) - i

NoMatch == [ok |-> FALSE, end |-> 0, caps |-> <<>>]

\* elements k.. of pattern p matched against text t from position i on; a star takes
\* the longest run (greedy) or the shortest (lazy) with which the rest matches
RECURSIVE MatchFrom(_, _, _, _, _)
MatchFrom(p, k, t, i, caps) ==
    IF k > Len(p) THEN [ok |-> TRUE, end |-> i, caps |-> caps]
    ELSE LET e == p[k] IN
         CASE e.k = "lit" ->
                IF i <= Len(t) /\ t[i] = e.c
                THEN MatchFrom(p, k + 1, t, i + 1, caps)
                ELSE NoMatch
           [] e.k = "one" ->
                IF i <= Len(t) /\ InClass(t[i], e.c)
                THEN MatchFrom(p, k + 1, t, i + 1,
                               IF e.cap THEN Append(caps, <<t[i]>>) ELSE caps)
                ELSE NoMatch
           [] e.k = "star" ->
                LET run == RunLen(t, i, e.c)
                    tries == {[n |-> n,
                               r |-> MatchFrom(p, k + 1, t, i + n,
                                               IF e.cap
                                               THEN Append(caps, SubSeq(t, i, i + n - 1))
                                               ELSE caps)] : n \in e.min..run}
                    good == {x \in tries : x.r.ok}
                IN  IF good = {} THEN NoMatch
                    ELSE (CHOOSE x \in good :
                              \A y \in good : IF e.greedy THEN x.n >= y.n ELSE x.n <= y.n).r

\* re.findall: the captures of the non-overlapping matches, from left to right;
\* m[j] is the match that starts at position j
RECURSIVE FindAllFrom(_, _)
FindAllFrom(m, i) ==
    LET starts == {j \in DOMAIN m : j >= i /\ m[j].ok}
    IN  IF starts = {} THEN <<>>
        ELSE LET j == Min(starts)
             IN  <<m[j].caps>> \o FindAllFrom(m, IF m[j].end > j THEN m[j].end ELSE j + 1)

findall(p, t) == FindAllFrom([j \in 1..(Len(t) + 1) |-> MatchFrom(p, 1, t, j, <<>>)], 1)

(***************************************************************************)
(* ErrorHandler.check_result: the outcome of the call, an error raised     *)
(* with its message or a line logged.                                      *)
(***************************************************************************)
\* CR CR, a greedy captured dot-star, LF CR
FailurePattern_two_cr ==
    Lits(<<CR, CR>>) \o <<Star("dot", TRUE, TRUE, 0)>> \o Lits(<<LF, CR>>)

\* CR LF CR, a greedy captured dot-star, LF CR
FailurePattern == Lits(<<CR, LF, CR>>) \o <<Star("dot", TRUE, TRUE, 0)>> \o Lits(<<LF, CR>>)

\* check_result testing the first message instead of the list of matches
check_result_first_message(where, result) ==
    LET failure == findall(FailurePattern, result)
    IN  IF failure # <<>> /\ failure[1][1] # <<>>
        THEN [raised |-> "RosError", error_msg |-> <<where, "Failed", failure[1][1]>>,
              logged |-> <<>>]
        ELSE [raised |-> "", error_msg |-> <<>>, logged |-> <<where, "Success">>]

\* check_result reporting the last failure of the text
check_result_last_match(where, result) ==
    LET failure == findall(FailurePattern, result)
    IN  IF failure # <<>>
        THEN [raised |-> "RosError",
              error_msg |-> <<where, "Failed", failure[Len(failure)][1]>>,
              logged |-> <<>>]
        ELSE [raised |-> "", error_msg |-> <<>>, logged |-> <<where, "Success">>]

check_result(where, result) ==
    LET failure == findall(FailurePattern, result)
    IN  IF failure # <<>>
        THEN [raised |-> "RosError", error_msg |-> <<where, "Failed", failure[1][1]>>,
              logged |-> <<>>]
        ELSE [raised |-> "", error_msg |-> <<>>, logged |-> <<where, "Success">>]

(***************************************************************************)
(* The functions examined on their own: Init draws the arguments of one    *)
(* call, the action applies the function.                                  *)
(***************************************************************************)
\* the callers (threads) that share one RosApi object
Callers == {1, 2}

NoCall == [fn |-> "none"]
NoOp == [name |-> "none", ix |-> 0]
NoOut == [name |-> "none"]

\* the session of a specification that examines a function: no stream, no caller
NoSession ==
    /\ lpc = "none" /\ username = "" /\ rx = <<>> /\ timedout = {} /\ eof = FALSE
    /\ tn = "none" /\ cooked = <<>> /\ sent = <<>> /\ log = <<>>
    /\ pc = [c \in Callers |-> "idle"]
    /\ op = [c \in Callers |-> NoOp]
    /\ out = [c \in Callers |-> NoOut]
    /\ nops = 0
    /\ replied = 0

\* the pieces the inputs of untag are assembled from
UntagPieces ==
    {TagReset, TagGreen, TagBold, TagBoldRed, TagEraseEol, TagCyan,
     <<ESC, "[">>, <<ESC, "[", "3">>, <<"2", "m">>, <<"m">>, <<"K">>, <<"a">>,
     <<ESC, "[", "7", "m">>}

UntagInputs == {Concat(ps) : ps \in SeqsUpTo(UntagPieces, MaxPieces)}

InitUntag ==
    /\ call \in {[fn |-> "untag", text |-> t] : t \in UntagInputs}
    /\ ret = <<>>
    /\ NoSession

\* untag applied to the text, and then to its own result
call_untag ==
    /\ call.fn = "untag"
    /\ Len(ret) < 2
    /\ ret' = Append(ret, untag(IF ret = <<>> THEN call.text ELSE ret[Len(ret)]))
    /\ UNCHANGED <<call, loginvars, streamvars, opvars>>

NextUntag == call_untag

SpecUntag == InitUntag /\ [][NextUntag]_vars

ResultChars == {CR, LF, "e", "f"}
Wheres == {"Add Pool", "Remove Address Pool"}

\* a failure line as the console prints it, and the pieces longer texts are
\* assembled from: failure lines, a failure line that begins in the end of the
\* one before it, a word, a line break, the prompt
FailureLine(m) == <<CR, LF, CR>> \o m \o <<LF, CR>>
ResultPieces ==
    {FailureLine(<<"e">>), FailureLine(<<"f">>), <<LF, CR, "f", LF, CR>>, <<"e">>,
     <<CR, LF>>, <<">">>}

InitCheckResult ==
    /\ call \in {[fn |-> "check_result", where |-> w, result |-> t] :
                    w \in Wheres,
                    t \in SeqsUpTo(ResultChars, MaxResultLen)
                          \cup {Concat(ps) : ps \in SeqsUpTo(ResultPieces, MaxResultPieces)}}
    /\ ret = <<>>
    /\ NoSession

call_check_result ==
    /\ call.fn = "check_result"
    /\ ret = <<>>
    /\ ret' = <<check_result(call.where, call.result)>>
    /\ UNCHANGED <<call, loginvars, streamvars, opvars>>

NextCheckResult == call_check_result

SpecCheckResult == InitCheckResult /\ [][NextCheckResult]_vars

(***************************************************************************)
(* The stream.  A byte of the receive buffer is a pair: the character and  *)
(* the index in `sent` of the write the peer answered with it (0 for what  *)
(* the peer emits unasked).                                                *)
(***************************************************************************)
Text(buf) == [i \in 1..Len(buf) |-> buf[i][1]]
From(t, ix) == [i \in 1..Len(t) |-> <<t[i], ix>>]

Range(f) == {f[i] : i \in DOMAIN f}

\* a write that ends the line with carriage return and line feed
write_crlf(by, command) == [by |-> by, text |-> command \o <<CR, LF>>]

\* TelnetCtrl.write: the command and one carriage return (by: the caller, 0 for login)
write(by, command) == [by |-> by, text |-> command \o <<CR>>]

\* the position after the first occurrence of match in text t, 0 if there is none
MatchEnd(t, match) ==
    IF Contains(t, match)
    THEN (CHOOSE i \in 1..Len(t) :
              /\ OccursAt(t, match, i)
              /\ \A j \in 1..(i - 1) : ~OccursAt(t, match, j)) + Len(match)
    ELSE 0

(***************************************************************************)
(* TelnetCtrl.login.  The peer emits what it will, when it will; a wait    *)
(* that has a timeout returns at the match or at the timeout.              *)
(***************************************************************************)
Password == <<"pw">>
LoginChars == {"Login:", "Password:", ">", SP}

InitLogin ==
    /\ call = NoCall /\ ret = <<>>
    /\ lpc = "open"
    /\ username \in {"admin", ""}
    /\ tn = "none" /\ cooked = <<>> /\ sent = <<>> /\ log = <<>>
    /\ rx = <<>> /\ timedout = {} /\ eof = FALSE
    /\ pc = [c \in Callers |-> "idle"]
    /\ op = [c \in Callers |-> NoOp]
    /\ out = [c \in Callers |-> NoOut]
    /\ nops = 0
    /\ replied = 0

\* a login that waits for the login banner whether or not a username is configured
login_open_always_handshake ==
    /\ lpc = "open"
    /\ tn' = "open"
    /\ lpc' = "wait_login"
    /\ UNCHANGED <<fnvars, username, rx, timedout, eof, cooked, sent, log, opvars>>

\* line 28-29: the stream is opened
login_open ==
    /\ lpc = "open"
    /\ tn' = "open"
    /\ lpc' = IF username # "" THEN "wait_login" ELSE "wait_finish"
    /\ UNCHANGED <<fnvars, username, rx, timedout, eof, cooked, sent, log, opvars>>

\* tn.read_until(match, timeout) returning at the match: the buffer is read up to it
read_until_match(at, match, next) ==
    /\ lpc = at
    /\ Contains(Text(cooked), match)
    /\ cooked' = SubSeq(cooked, MatchEnd(Text(cooked), match), Len(cooked))
    /\ lpc' = next
    /\ UNCHANGED <<fnvars, username, rx, timedout, eof, tn, sent, log, opvars>>

\* tn.read_until(match, timeout) returning at the timeout: all that came is read
read_until_timeout(at, next) ==
    /\ lpc = at
    /\ ~eof
    /\ cooked' = <<>>
    /\ timedout' = timedout \cup {at}
    /\ lpc' = next
    /\ UNCHANGED <<fnvars, username, rx, eof, tn, sent, log, opvars>>

\* tn.read_until(match) once the peer has closed the connection and the match has
\* not come: what came is returned, and EOFError is raised when nothing came
read_until_eof(at, match, next) ==
    /\ lpc = at
    /\ eof
    /\ ~Contains(Text(cooked), match)
    /\ cooked' = <<>>
    /\ lpc' = IF cooked = <<>> THEN "EOFError" ELSE next
    /\ UNCHANGED <<fnvars, username, rx, timedout, eof, tn, sent, log, opvars>>

\* tn.write once the peer has closed the connection: the write may still succeed,
\* or the socket raises its error
write_broken(at) ==
    /\ lpc = at
    /\ eof
    /\ lpc' = "socket.error"
    /\ UNCHANGED <<fnvars, username, rx, timedout, eof, tn, cooked, sent, log, opvars>>

\* line 30
login_wait_login ==
    \/ read_until_match("wait_login", <<"Login:">>, "write_username")
    \/ /\ ~Contains(Text(cooked), <<"Login:">>)
       /\ read_until_timeout("wait_login", "write_username")
    \/ read_until_eof("wait_login", <<"Login:">>, "write_username")

\* line 31
login_write_username ==
    \/ /\ lpc = "write_username"
       /\ sent' = Append(sent, write(0, <<username>>))
       /\ lpc' = "wait_password"
       /\ UNCHANGED <<fnvars, username, rx, timedout, eof, tn, cooked, log, opvars>>
    \/ write_broken("write_username")

\* line 32
login_wait_password ==
    \/ read_until_match("wait_password", <<"Password:">>, "write_password")
    \/ /\ ~Contains(Text(cooked), <<"Password:">>)
       /\ read_until_timeout("wait_password", "write_password")
    \/ read_until_eof("wait_password", <<"Password:">>, "write_password")

\* line 33
login_write_password ==
    \/ /\ lpc = "write_password"
       /\ sent' = Append(sent, write(0, Password))
       /\ lpc' = "wait_finish"
       /\ UNCHANGED <<fnvars, username, rx, timedout, eof, tn, cooked, log, opvars>>
    \/ write_broken("write_password")

\* line 34-36: the wait for the prompt has no timeout
login_wait_finish ==
    \/ /\ lpc = "wait_finish"
       /\ Contains(Text(cooked), <<">">>)
       /\ cooked' = SubSeq(cooked, MatchEnd(Text(cooked), <<">">>), Len(cooked))
       /\ log' = Append(log, <<"Telnet connected">>)
       /\ lpc' = "connected"
       /\ UNCHANGED <<fnvars, username, rx, timedout, eof, tn, sent, opvars>>
    \/ /\ lpc = "wait_finish"
       /\ eof
       /\ ~Contains(Text(cooked), <<">">>)
       /\ cooked' = <<>>
       /\ IF cooked = <<>>
          THEN lpc' = "EOFError" /\ log' = log
          ELSE lpc' = "connected" /\ log' = Append(log, <<"Telnet connected">>)
       /\ UNCHANGED <<fnvars, username, rx, timedout, eof, tn, sent, opvars>>

\* the peer emits one character
peer_emit ==
    /\ tn = "open"
    /\ ~eof
    /\ Len(rx) < MaxEmits
    /\ \E ch \in LoginChars :
          /\ cooked' = Append(cooked, <<ch, 0>>)
          /\ rx' = Append(rx, ch)
    /\ UNCHANGED <<fnvars, lpc, username, timedout, eof, tn, sent, log, opvars>>

\* the peer closes the connection
peer_close ==
    /\ tn = "open"
    /\ ~eof
    /\ eof' = TRUE
    /\ UNCHANGED <<fnvars, lpc, username, rx, timedout, tn, cooked, sent, log, opvars>>

NextLogin ==
    \/ login_open
    \/ login_wait_login
    \/ login_write_username
    \/ login_wait_password
    \/ login_write_password
    \/ login_wait_finish
    \/ peer_emit
    \/ peer_close

SpecLogin == InitLogin /\ [][NextLogin]_vars

(***************************************************************************)
(* Record extraction of the reading operations.                            *)
(***************************************************************************)
QUOTE == "\""

\* name=, a quote, a greedy captured dot-star, a quote, a space, ranges=, a greedy
\* captured dot-star, a space
PoolPattern ==
    Lits(<<"name=", QUOTE>>) \o <<Star("dot", TRUE, TRUE, 0)>>
        \o Lits(<<QUOTE, SP, "ranges=">>) \o <<Star("dot", TRUE, TRUE, 0)>> \o Lits(<<SP>>)

\* get_address_pool, from the capture on: it returns the list of matches
parse_address_pool(capture) ==
    LET text == untag(capture)
        pool_list == findall(PoolPattern, text)
    IN  [handed |-> text, raised |-> "", value |-> pool_list]

\* one or more digits captured, a space, a lazy captured dot-star, a space, lazily
\* anything, service-name= and a quoted greedy dot-star, interface=, max-mtu= and
\* max-mru= each with a greedy captured dot-star and a space, lazily anything,
\* authentication= with a lazy captured dot-star and a space, lazily anything,
\* default-profile= with a greedy captured dot-star and a space
PPPoEServerPattern ==
    <<Star("digit", TRUE, TRUE, 1), Lit(SP), Star("dot", FALSE, TRUE, 0), Lit(SP),
      Star("any", FALSE, FALSE, 0), Lit("service-name="), Lit(QUOTE),
      Star("dot", TRUE, TRUE, 0), Lit(QUOTE), Lit(SP), Lit("interface="),
      Star("dot", TRUE, TRUE, 0), Lit(SP), Lit("max-mtu="),
      Star("dot", TRUE, TRUE, 0), Lit(SP), Lit("max-mru="),
      Star("dot", TRUE, TRUE, 0), Lit(SP), Star("any", FALSE, FALSE, 0),
      Lit("authentication="), Star("dot", FALSE, TRUE, 0), Lit(SP),
      Star("any", FALSE, FALSE, 0), Lit("default-profile="),
      Star("dot", TRUE, TRUE, 0), Lit(SP)>>

\* line 463-470: the status of a pppoe server from its flag
pppoe_server_status(flag) ==
    IF flag = <<"X">> THEN "disabled"
    ELSE IF flag = <<"I">> THEN "invalid"
    ELSE IF flag = <<"X", "I">> THEN "disabled and invalid"
    ELSE "enabled"

\* get_pppoe_server leaving the status out of the record of a row without a flag
parse_pppoe_server_sparse(capture) ==
    LET text == untag(capture)
        pppoe_server_result == findall(PPPoEServerPattern, text)
    IN  [handed |-> text, raised |-> "",
         value |-> [i \in 1..Len(pppoe_server_result) |->
                      LET item == pppoe_server_result[i]
                          rest == [num |-> item[1],
                                   service_name |-> item[3], interface |-> item[4],
                                   max_mtu |-> item[5], max_mru |-> item[6],
                                   authentication |-> item[7],
                                   default_profile |-> item[8]]
                      IN  IF item[2] = <<>> THEN rest
                          ELSE rest @@ [status |-> pppoe_server_status(item[2])]]]

\* get_pppoe_server, from the capture on
parse_pppoe_server(capture) ==
    LET text == untag(capture)
        pppoe_server_result == findall(PPPoEServerPattern, text)
    IN  [handed |-> text, raised |-> "",
         value |-> [i \in 1..Len(pppoe_server_result) |->
                      LET item == pppoe_server_result[i]
                      IN  [num |-> item[1], status |-> pppoe_server_status(item[2]),
                           service_name |-> item[3], interface |-> item[4],
                           max_mtu |-> item[5], max_mru |-> item[6],
                           authentication |-> item[7], default_profile |-> item[8]]]]

\* one or more digits captured, a space, a lazy captured dot-star, a space, name= and
\* a quoted lazy dot-star, a space, service= with a lazy captured dot-star and a
\* space, lazily anything, password= and a quoted greedy dot-star, lazily anything,
\* profile= with a lazy captured dot-star and a space
PPPSecretPattern ==
    <<Star("digit", TRUE, TRUE, 1), Lit(SP), Star("dot", FALSE, TRUE, 0), Lit(SP),
      Lit("name="), Lit(QUOTE), Star("dot", FALSE, TRUE, 0), Lit(QUOTE), Lit(SP),
      Lit("service="), Star("dot", FALSE, TRUE, 0), Lit(SP),
      Star("any", FALSE, FALSE, 0), Lit("password="), Lit(QUOTE),
      Star("dot", TRUE, TRUE, 0), Lit(QUOTE), Star("any", FALSE, FALSE, 0),
      Lit("profile="), Star("dot", FALSE, TRUE, 0), Lit(SP)>>

\* line 687-690: the status of a ppp secret from its flag
ppp_secret_status(flag) ==
    IF flag = <<"X">> THEN "disabled" ELSE "enabled"

\* get_ppp_secret, from the capture on
parse_ppp_secret(capture) ==
    LET text == untag(capture)
        secret_result == findall(PPPSecretPattern, text)
    IN  [handed |-> text, raised |-> "",
         value |-> [i \in 1..Len(secret_result) |->
                      LET item == secret_result[i]
                      IN  [num |-> item[1], status |-> ppp_secret_status(item[2]),
                           name |-> item[3], service |-> item[4],
                           password |-> item[5], profile |-> item[6]]]]

\* address= with a greedy captured dot-star and a space, mac-address= the same,
\* greedily anything, server= with a greedy captured dot-star and a space, greedily
\* anything, host-name= and a quoted greedy dot-star, a space
DhcpServerClientPattern ==
    <<Lit("address="), Star("dot", TRUE, TRUE, 0), Lit(SP), Lit("mac-"),
      Lit("address="), Star("dot", TRUE, TRUE, 0), Lit(SP),
      Star("any", TRUE, FALSE, 0), Lit("server="), Star("dot", TRUE, TRUE, 0),
      Lit(SP), Star("any", TRUE, FALSE, 0), Lit("host-name="), Lit(QUOTE),
      Star("dot", TRUE, TRUE, 0), Lit(QUOTE), Lit(SP)>>

\* get_dhcp_server_client, from the capture on
parse_dhcp_server_client(capture) ==
    LET text == untag(capture)
        client_result == findall(DhcpServerClientPattern, text)
    IN  [handed |-> text, raised |-> "",
         value |-> [i \in 1..Len(client_result) |->
                      LET client == client_result[i]
                      IN  [ip |-> client[1], mac |-> client[2],
                           server |-> client[3], hostname |-> client[4]]]]

\* one digit captured, a space, address=, gateway= and netmask= each with a lazy
\* captured dot-star and a space, greedily anything, dns-server= with a lazy
\* captured dot-star and a space
DhcpServerNetworkPattern ==
    <<One("digit", TRUE), Lit(SP), Lit("address="), Star("dot", FALSE, TRUE, 0),
      Lit(SP), Lit("gateway="), Star("dot", FALSE, TRUE, 0), Lit(SP),
      Lit("netmask="), Star("dot", FALSE, TRUE, 0), Lit(SP),
      Star("any", TRUE, FALSE, 0), Lit("dns-server="),
      Star("dot", FALSE, TRUE, 0), Lit(SP)>>

\* get_dhcp_server_network, from the capture on
parse_dhcp_server_network(capture) ==
    LET text == untag(capture)
        network_result == findall(DhcpServerNetworkPattern, text)
    IN  [handed |-> text, raised |-> "",
         value |-> [i \in 1..Len(network_result) |->
                      LET network == network_result[i]
                      IN  [num |-> network[1], address |-> network[2],
                           gateway |-> network[3], netmask |-> network[4],
                           dns_server |-> network[5]]]]

\* name= and a quoted greedy captured dot-star
PPPProfileNamePattern ==
    <<Lit("name="), Lit(QUOTE), Star("dot", TRUE, TRUE, 0), Lit(QUOTE)>>

\* get_ppp_profile_name, from the capture on: the pattern has one group, so the
\* list holds the names themselves
parse_ppp_profile_name(capture) ==
    LET text == untag(capture)
        profile_list == findall(PPPProfileNamePattern, text)
    IN  [handed |-> text, raised |-> "",
         value |-> [i \in 1..Len(profile_list) |-> profile_list[i][1]]]

\* name= and a quoted greedy captured dot-star, a space, local-address= with a
\* greedy captured dot-star and a space, remote-address= with a lazy one, lazily
\* anything, use-encryption= with a lazy captured dot-star and a space, lazily
\* anything, dns-server= with a lazy captured dot-star and a space
PPPProfilePattern ==
    <<Lit("name="), Lit(QUOTE), Star("dot", TRUE, TRUE, 0), Lit(QUOTE), Lit(SP),
      Lit("local-"), Lit("address="), Star("dot", TRUE, TRUE, 0), Lit(SP),
      Lit("remote-"), Lit("address="), Star("dot", FALSE, TRUE, 0), Lit(SP),
      Star("any", FALSE, FALSE, 0), Lit("use-encryption="),
      Star("dot", FALSE, TRUE, 0), Lit(SP), Star("any", FALSE, FALSE, 0),
      Lit("dns-server="), Star("dot", FALSE, TRUE, 0), Lit(SP)>>

\* get_ppp_profile raising an error when the pattern matches nothing
parse_ppp_profile_strict(capture) ==
    LET text == untag(capture)
        profile_result == findall(PPPProfilePattern, text)
    IN  IF profile_result = <<>>
        THEN [handed |-> text, raised |-> "ParseMismatch", value |-> <<>>]
        ELSE [handed |-> text, raised |-> "",
              value |-> [i \in 1..Len(profile_result) |->
                           LET item == profile_result[i]
                           IN  [name |-> item[1], local_address |-> item[2],
                                remote_address |-> item[3],
                                use_encryption |-> item[4], dns_server |-> item[5]]]]

\* get_ppp_profile, from the capture on
parse_ppp_profile(capture) ==
    LET text == untag(capture)
        profile_result == findall(PPPProfilePattern, text)
    IN  [handed |-> text, raised |-> "",
         value |-> [i \in 1..Len(profile_result) |->
                      LET item == profile_result[i]
                      IN  [name |-> item[1], local_address |-> item[2],
                           remote_address |-> item[3], use_encryption |-> item[4],
                           dns_server |-> item[5]]]]

(***************************************************************************)
(* The extraction examined on its own: Init draws a capture, assembled     *)
(* from pieces or from rows as the console prints them.                    *)
(***************************************************************************)
\* an address-pool entry and the space after it
PoolEntry(name, ranges) == <<"name=", QUOTE, name, QUOTE, SP, "ranges=", ranges, SP>>

PoolEntries == {PoolEntry("pppoe", "r1"), PoolEntry("static", "r2")}
PoolPieces == PoolEntries \cup {<<CR, LF>>, <<"next-pool=", "none", SP>>, TagEraseEol}

\* the flags a row may carry: none, X, I, XI, and D (dynamic), which the mapping
\* does not know
Flags == {<<>>, <<"X">>, <<"I">>, <<"X", "I">>, <<"D">>}

\* a row number as the console prints it, digit by digit
NumText(i) ==
    IF i < 10 THEN <<ToString(i)>> ELSE <<ToString(i \div 10), ToString(i % 10)>>

\* row number i of a listing of pppoe servers, as the console prints it; the
\* default profile is a text, empty when the server has none
PPPoEServerWith(i, flag, name, profile) ==
    <<SP>> \o NumText(i) \o <<SP>> \o flag
        \o <<SP, "service-name=", QUOTE, name, QUOTE, SP, "interface=", "e", SP,
             "max-mtu=", "m", SP, "max-mru=", "m", SP, CR, LF, SP, SP,
             "authentication=", "pap", SP, "default-profile=">>
        \o profile \o <<SP, CR, LF>>

PPPoEServerEntry(i, flag, name) == PPPoEServerWith(i, flag, name, <<"d">>)

PPPoEServerRow(i, flag) == PPPoEServerEntry(i, flag, "s")

\* row number i of a listing of ppp secrets
PPPSecretEntry(i, flag, name) ==
    <<SP>> \o NumText(i) \o <<SP>> \o flag
        \o <<SP, "name=", QUOTE, name, QUOTE, SP, "service=", "pppoe", SP,
             "password=", QUOTE, "w", QUOTE, SP, "profile=", "d", SP, CR, LF>>

PPPSecretRow(i, flag) == PPPSecretEntry(i, flag, "u")

\* row number i of a listing of dhcp leases
DhcpLeaseRow(i, host) ==
    <<SP>> \o NumText(i)
        \o <<SP, "address=", "ip", SP, "mac-", "address=", "mac", SP, "server=",
             "dhcp1", SP, CR, LF, SP, SP, "host-name=", QUOTE, host, QUOTE, SP,
             CR, LF>>

\* row number i of a listing of dhcp networks
DhcpNetworkRow(i, address) ==
    <<SP>> \o NumText(i)
        \o <<SP, "address=", address, SP, "gateway=", "g", SP, "netmask=", "n", SP,
             "dns-server=", "d", SP, CR, LF>>

\* row number i of a listing of ppp profiles
PPPProfileRow(i, name) ==
    <<SP>> \o NumText(i)
        \o <<SP, "name=", QUOTE, name, QUOTE, SP, "local-", "address=", "l", SP,
             "remote-", "address=", "r", SP, "use-encryption=", "default", SP,
             "dns-server=", "d", SP, CR, LF>>

\* the listing of the rows whose flags are fs, numbered from 0
RECURSIVE PPPoEServerListing(_, _)
PPPoEServerListing(fs, i) ==
    IF fs = <<>> THEN <<>>
    ELSE PPPoEServerRow(i, Head(fs)) \o PPPoEServerListing(Tail(fs), i + 1)

RECURSIVE PPPSecretListing(_, _)
PPPSecretListing(fs, i) ==
    IF fs = <<>> THEN <<>>
    ELSE PPPSecretRow(i, Head(fs)) \o PPPSecretListing(Tail(fs), i + 1)

\* the reading operations, and the keys the rows of the model are named with
ReadFns ==
    {"get_address_pool", "get_dhcp_server_client", "get_dhcp_server_network",
     "get_ppp_profile_name", "get_pppoe_server", "get_ppp_profile", "get_ppp_secret"}
Names == {"a", "b"}

\* the row numbers a listing may start with
Firsts == {0, 10}

\* a row of the listing an operation parses, with `name` as its key
RowOf(fn, i, name) ==
    CASE fn = "get_address_pool" -> PoolEntry(name, "r1") \o <<CR, LF>>
      [] fn = "get_dhcp_server_client" -> DhcpLeaseRow(i, name)
      [] fn = "get_dhcp_server_network" -> DhcpNetworkRow(i, name)
      [] fn \in {"get_ppp_profile_name", "get_ppp_profile"} -> PPPProfileRow(i, name)
      [] fn = "get_pppoe_server" -> PPPoEServerEntry(i, <<>>, name)
      [] fn = "get_ppp_secret" -> PPPSecretEntry(i, <<>>, name)

\* the first half of a row: what has arrived of it when the capture is taken
CutOf(row) == SubSeq(row, 1, Len(row) \div 2)

\* the line of legend the console prints above its rows
Legend == <<"Flags:", SP, "X", SP, "-", SP, "disabled", SP, CR, LF>>

\* what a listing is assembled from: a row named a or b, half a row, the legend
RowPieces == Names \cup {"cut", "legend"}

\* the listing of the pieces ps, its rows numbered from i
RECURSIVE RowListing(_, _, _)
RowListing(fn, ps, i) ==
    IF ps = <<>> THEN <<>>
    ELSE IF Head(ps) = "legend" THEN Legend \o RowListing(fn, Tail(ps), i)
    ELSE (IF Head(ps) = "cut" THEN CutOf(RowOf(fn, i, "a")) ELSE RowOf(fn, i, Head(ps)))
             \o RowListing(fn, Tail(ps), i + 1)

\* texts that hold no complete row of the operation
Unmatched(fn) ==
    {Legend, CutOf(RowOf(fn, 0, "a")), Legend \o CutOf(RowOf(fn, 0, "a"))}

InitExtract ==
    /\ call \in
         {[fn |-> "get_address_pool", pieces |-> ps, capture |-> Concat(ps)] :
              ps \in SeqsUpTo(PoolPieces, MaxPoolPieces)}
         \cup {[fn |-> "get_address_pool", pieces |-> <<>>, capture |-> t] :
                  t \in Unmatched("get_address_pool")}
         \cup {[fn |-> "get_pppoe_server", pieces |-> fs, first |-> n,
                capture |-> PPPoEServerListing(fs, n)] :
                  fs \in SeqsUpTo(Flags, MaxRows), n \in Firsts}
         \cup {[fn |-> "get_ppp_secret", pieces |-> fs, first |-> n,
                capture |-> PPPSecretListing(fs, n)] :
                  fs \in SeqsUpTo(Flags, MaxRows), n \in Firsts}
         \cup UNION {{[fn |-> f, pieces |-> <<>>, first |-> 0, capture |-> t] :
                         t \in Unmatched(f)} :
                            f \in {"get_pppoe_server", "get_ppp_secret"}}
         \cup {[fn |-> f, pieces |-> ps, first |-> n, capture |-> RowListing(f, ps, n)] :
                  f \in {"get_dhcp_server_client", "get_dhcp_server_network",
                         "get_ppp_profile_name", "get_ppp_profile"},
                  ps \in SeqsUpTo(RowPieces, MaxRows), n \in Firsts}
    /\ ret = <<>>
    /\ NoSession

call_get_address_pool ==
    /\ call.fn = "get_address_pool"
    /\ ret = <<>>
    /\ ret' = <<parse_address_pool(call.capture)>>
    /\ UNCHANGED <<call, loginvars, streamvars, opvars>>

call_get_pppoe_server ==
    /\ call.fn = "get_pppoe_server"
    /\ ret = <<>>
    /\ ret' = <<parse_pppoe_server(call.capture)>>
    /\ UNCHANGED <<call, loginvars, streamvars, opvars>>

call_get_ppp_secret ==
    /\ call.fn = "get_ppp_secret"
    /\ ret = <<>>
    /\ ret' = <<parse_ppp_secret(call.capture)>>
    /\ UNCHANGED <<call, loginvars, streamvars, opvars>>

call_get_dhcp_server_client ==
    /\ call.fn = "get_dhcp_server_client"
    /\ ret = <<>>
    /\ ret' = <<parse_dhcp_server_client(call.capture)>>
    /\ UNCHANGED <<call, loginvars, streamvars, opvars>>

call_get_dhcp_server_network ==
    /\ call.fn = "get_dhcp_server_network"
    /\ ret = <<>>
    /\ ret' = <<parse_dhcp_server_network(call.capture)>>
    /\ UNCHANGED <<call, loginvars, streamvars, opvars>>

call_get_ppp_profile_name ==
    /\ call.fn = "get_ppp_profile_name"
    /\ ret = <<>>
    /\ ret' = <<parse_ppp_profile_name(call.capture)>>
    /\ UNCHANGED <<call, loginvars, streamvars, opvars>>

call_get_ppp_profile ==
    /\ call.fn = "get_ppp_profile"
    /\ ret = <<>>
    /\ ret' = <<parse_ppp_profile(call.capture)>>
    /\ UNCHANGED <<call, loginvars, streamvars, opvars>>

NextExtract ==
    \/ call_get_address_pool
    \/ call_get_dhcp_server_client
    \/ call_get_dhcp_server_network
    \/ call_get_ppp_profile_name
    \/ call_get_pppoe_server
    \/ call_get_ppp_profile
    \/ call_get_ppp_secret

SpecExtract == InitExtract /\ [][NextExtract]_vars

(***************************************************************************)
(* The lookups: each runs its reading operation and searches the records   *)
(* for a key.                                                              *)
(***************************************************************************)
\* the integer -1 the search starts with; no captured text is equal to it
MinusOne == <<"-1 (int)">>

\* a loop that keeps the num of the first record whose field has the value
RECURSIVE number_loop_first(_, _, _, _)
number_loop_first(list, field, value, num) ==
    IF list = <<>> THEN num
    ELSE number_loop_first(Tail(list), field, value,
                           IF num = MinusOne /\ Head(list)[field] = value
                           THEN Head(list).num ELSE num)

\* the loop of a lookup: num is taken from every record whose field has the value
RECURSIVE number_loop(_, _, _, _)
number_loop(list, field, value, num) ==
    IF list = <<>> THEN num
    ELSE number_loop(Tail(list), field, value,
                     IF Head(list)[field] = value THEN Head(list).num ELSE num)

\* a lookup that returns what the loop has left in num, found or not
number_of_unchecked(list, field, value, errmsg) ==
    [raised |-> "", error_msg |-> <<>>,
     value |-> number_loop(list, field, value, MinusOne)]

\* the body the three lookups share
number_of(list, field, value, errmsg) ==
    LET num == number_loop(list, field, value, MinusOne)
    IN  IF num = MinusOne
        THEN [raised |-> "RosError", error_msg |-> <<errmsg, value>>, value |-> <<>>]
        ELSE [raised |-> "", error_msg |-> <<>>, value |-> num]

get_dhcp_server_network_number(capture, address) ==
    number_of(parse_dhcp_server_network(capture).value, "address", address,
              "No Matched DHCP Server Network Number for Address")

get_pppoe_server_number(capture, service_name) ==
    number_of(parse_pppoe_server(capture).value, "service_name", service_name,
              "No Matched PPPoE Server Number for Service Name ")

get_ppp_secret_number(capture, secret_name) ==
    number_of(parse_ppp_secret(capture).value, "name", secret_name,
              "No Matched PPP Secret Number for Secret Name ")

LookupFns ==
    {"get_dhcp_server_network_number", "get_pppoe_server_number",
     "get_ppp_secret_number"}

\* the reading operation a lookup runs
ReadFnOf(fn) ==
    CASE fn = "get_dhcp_server_network_number" -> "get_dhcp_server_network"
      [] fn = "get_pppoe_server_number" -> "get_pppoe_server"
      [] fn = "get_ppp_secret_number" -> "get_ppp_secret"

\* the keys a lookup is called with: those of the rows, and one no row has
Keys == Names \cup {"c"}

InitLookup ==
    /\ call \in {[fn |-> f, pieces |-> ps, first |-> n, key |-> <<k>>,
                   capture |-> RowListing(ReadFnOf(f), ps, n)] :
                     f \in LookupFns, ps \in SeqsUpTo(RowPieces, MaxRows),
                     n \in Firsts, k \in Keys}
    /\ ret = <<>>
    /\ NoSession

call_get_dhcp_server_network_number ==
    /\ call.fn = "get_dhcp_server_network_number"
    /\ ret = <<>>
    /\ ret' = <<get_dhcp_server_network_number(call.capture, call.key)>>
    /\ UNCHANGED <<call, loginvars, streamvars, opvars>>

call_get_pppoe_server_number ==
    /\ call.fn = "get_pppoe_server_number"
    /\ ret = <<>>
    /\ ret' = <<get_pppoe_server_number(call.capture, call.key)>>
    /\ UNCHANGED <<call, loginvars, streamvars, opvars>>

call_get_ppp_secret_number ==
    /\ call.fn = "get_ppp_secret_number"
    /\ ret = <<>>
    /\ ret' = <<get_ppp_secret_number(call.capture, call.key)>>
    /\ UNCHANGED <<call, loginvars, streamvars, opvars>>

NextLookup ==
    \/ call_get_dhcp_server_network_number
    \/ call_get_pppoe_server_number
    \/ call_get_ppp_secret_number

SpecLookup == InitLookup /\ [][NextLookup]_vars

(***************************************************************************)
(* set_pppoe_server_dns: it lists the servers, finds the service name of   *)
(* the server with the number, then the default profile of the server with *)
(* that service name, and sets the dns server of that profile.             *)
(***************************************************************************)
\* a local variable no statement has assigned yet, and the value None
Unbound == <<"(unbound)">>
None == <<"(None)">>

\* line 654-656: the service name of every server with the number is taken
RECURSIVE service_name_loop(_, _, _)
service_name_loop(servers, numbers, service_name) ==
    IF servers = <<>> THEN service_name
    ELSE service_name_loop(Tail(servers), numbers,
                           IF Head(servers).num = numbers
                           THEN Head(servers).service_name ELSE service_name)

\* line 658-660: the default profile of every server with the service name is taken
RECURSIVE profile_name_loop(_, _, _)
profile_name_loop(servers, service_name, profile_name) ==
    IF servers = <<>> THEN profile_name
    ELSE profile_name_loop(Tail(servers), service_name,
                           IF Head(servers).service_name = service_name
                           THEN Head(servers).default_profile ELSE profile_name)

\* set_pppoe_server_dns from the capture of the listing on; rc is what is read
\* after the set command.  Reading service_name before any statement has assigned
\* it (line 659 with servers, line 668 without) raises UnboundLocalError.
set_pppoe_server_dns(capture, numbers, new_dns, rc) ==
    LET servers == parse_pppoe_server(capture).value
        service_name == service_name_loop(servers, numbers, Unbound)
        profile_name == profile_name_loop(servers, service_name, None)
    IN  IF service_name = Unbound
        THEN [raised |-> "UnboundLocalError", error_msg |-> <<>>, logged |-> <<>>,
              written |-> <<>>]
        ELSE IF profile_name # None /\ profile_name # <<>>
        THEN LET cmd == <<"/ppp profile set numbers=">> \o profile_name
                            \o <<" dns-server=", new_dns>>
                 r == check_result("Set PPPoE Server DNS", rc)
             IN  [raised |-> r.raised, error_msg |-> r.error_msg,
                  logged |-> r.logged, written |-> <<write(1, cmd)>>]
        ELSE [raised |-> "RosError",
              error_msg |-> <<"No Matched PPPoE Server Profile for Service Name ",
                              service_name>>,
              logged |-> <<>>, written |-> <<>>]

\* the servers of a listing: a service name and a default profile each
ServerKinds ==
    {[name |-> "a", profile |-> <<"p">>], [name |-> "a", profile |-> <<"q">>],
     [name |-> "b", profile |-> <<"p">>], [name |-> "b", profile |-> <<>>]}

RECURSIVE ServerListing(_, _)
ServerListing(ks, i) ==
    IF ks = <<>> THEN <<>>
    ELSE PPPoEServerWith(i, <<>>, Head(ks).name, Head(ks).profile)
             \o ServerListing(Tail(ks), i + 1)

\* the numbers the operation is called with: rows of the listing, and a row no
\* listing of the model has
ServerNumbers == {<<"0">>, <<"1">>, <<"7">>}

InitSetDns ==
    /\ call \in {[fn |-> "set_pppoe_server_dns", pieces |-> ks,
                   capture |-> ServerListing(ks, 0), numbers |-> n,
                   new_dns |-> "8.8.8.8", rc |-> r] :
                     ks \in SeqsUpTo(ServerKinds, MaxRows), n \in ServerNumbers,
                     r \in {<<CR, LF, ">">>, <<CR, LF, CR, "e", LF, CR, ">">>}}
    /\ ret = <<>>
    /\ NoSession

call_set_pppoe_server_dns ==
    /\ call.fn = "set_pppoe_server_dns"
    /\ ret = <<>>
    /\ ret' = <<set_pppoe_server_dns(call.capture, call.numbers, call.new_dns,
                                     call.rc)>>
    /\ UNCHANGED <<call, loginvars, streamvars, opvars>>

NextSetDns == call_set_pppoe_server_dns

SpecSetDns == InitSetDns /\ [][NextSetDns]_vars

(***************************************************************************)
(* The commands of the operations that take an `enabled` flag: each maps   *)
(* the flag to the value of disabled= and formats its command.             *)
(***************************************************************************)
\* line 181-185
add_dhcp_server_cmd(name, interface, address_pool, lease_time, enabled) ==
    LET disabled == IF enabled THEN "no" ELSE "yes"
    IN  <<"/ip dhcp-server add name=", name, " interface=", interface,
          " address-pool=", address_pool, " lease-time=", lease_time,
          " disabled=", disabled>>

\* line 541-544
add_pppoe_server_cmd(service_name, interface, default_profile, max_mtu, max_mru, enabled) ==
    LET disabled == IF enabled THEN "yes" ELSE "no"
    IN  <<"/ interface pppoe-server server add service-name=", service_name,
          " interface=", interface, " default-profile=", default_profile,
          " max-mtu=", max_mtu, " max-mru=", max_mru, " disabled=", disabled>>

\* line 710-714
add_ppp_secret_cmd(secret_name, service_name, profile_name, password, enabled) ==
    LET disabled == IF enabled THEN "no" ELSE "yes"
    IN  <<"/ppp secret add name=", secret_name, " service=", service_name,
          " profile=", profile_name, " password=", password,
          " disabled=", disabled>>

\* line 795-799
set_ppp_secret_status_cmd(numbers, enabled) ==
    LET disabled == IF enabled THEN "no" ELSE "yes"
    IN  <<"/ppp secret set numbers=", numbers, " disabled=", disabled>>

\* the arguments the commands are formatted with
ArgNames == {"a", "b"}
ArgInterfaces == {"ether1", "ether2"}
ArgSizes == {"auto", "1480"}
ArgNumbers == {"0", "1", "10"}

InitCommand ==
    /\ call \in
         {[fn |-> "add_dhcp_server", name |-> n, interface |-> i, address_pool |-> p,
           lease_time |-> "00:10:00", enabled |-> e] :
              n \in ArgNames, i \in ArgInterfaces, p \in ArgNames, e \in BOOLEAN}
         \cup {[fn |-> "add_pppoe_server", service_name |-> n, interface |-> i,
                default_profile |-> p, max_mtu |-> m, max_mru |-> m, enabled |-> e] :
                  n \in ArgNames, i \in ArgInterfaces, p \in ArgNames,
                  m \in ArgSizes, e \in BOOLEAN}
         \cup {[fn |-> "add_ppp_secret", secret_name |-> n, service_name |-> "pppoe",
                profile_name |-> p, password |-> w, enabled |-> e] :
                  n \in ArgNames, p \in ArgNames, w \in ArgNames, e \in BOOLEAN}
         \cup {[fn |-> "set_ppp_secret_status", numbers |-> n, enabled |-> e] :
                  n \in ArgNumbers, e \in BOOLEAN}
    /\ ret = <<>>
    /\ NoSession

call_add_dhcp_server ==
    /\ call.fn = "add_dhcp_server"
    /\ ret = <<>>
    /\ ret' = <<add_dhcp_server_cmd(call.name, call.interface, call.address_pool,
                                    call.lease_time, call.enabled)>>
    /\ UNCHANGED <<call, loginvars, streamvars, opvars>>

call_add_pppoe_server ==
    /\ call.fn = "add_pppoe_server"
    /\ ret = <<>>
    /\ ret' = <<add_pppoe_server_cmd(call.service_name, call.interface,
                                     call.default_profile, call.max_mtu,
                                     call.max_mru, call.enabled)>>
    /\ UNCHANGED <<call, loginvars, streamvars, opvars>>

call_add_ppp_secret ==
    /\ call.fn = "add_ppp_secret"
    /\ ret = <<>>
    /\ ret' = <<add_ppp_secret_cmd(call.secret_name, call.service_name,
                                   call.profile_name, call.password, call.enabled)>>
    /\ UNCHANGED <<call, loginvars, streamvars, opvars>>

call_set_ppp_secret_status ==
    /\ call.fn = "set_ppp_secret_status"
    /\ ret = <<>>
    /\ ret' = <<set_ppp_secret_status_cmd(call.numbers, call.enabled)>>
    /\ UNCHANGED <<call, loginvars, streamvars, opvars>>

NextCommand ==
    \/ call_add_dhcp_server
    \/ call_add_pppoe_server
    \/ call_add_ppp_secret
    \/ call_set_ppp_secret_status

SpecCommand == InitCommand /\ [][NextCommand]_vars

(***************************************************************************)
(* The operations of a connected RosApi object.  Each caller is a thread   *)
(* that calls one operation after the other on the same object; the object *)
(* holds no lock.  An operation writes its command, sleeps, reads what has *)
(* arrived (read_very_eager) and validates or parses it: the model takes   *)
(* the read and what follows it as one step.                               *)
(***************************************************************************)
MutatingOps == {"add_address_pool", "remove_address_pool"}
ReadingOps == {"get_address_pool"}
Ops == MutatingOps \cup ReadingOps

\* the operation name each mutating operation hands to check_result
Where(name) ==
    CASE name = "add_address_pool" -> "Add Pool"
      [] name = "remove_address_pool" -> "Remove Address Pool"

\* the command of each operation, with the arguments the model calls it with
Cmd(name) ==
    CASE name = "add_address_pool" -> <<"/ip pool add name=", "a", " ranges=", "1">>
      [] name = "remove_address_pool" -> <<"/ip pool remove numbers=", "0">>
      [] name = "get_address_pool" -> <<"/ip pool print detail">>

\* what the router may answer a command with: the prompt, a failure marker, a
\* failure marker with a colour sequence inside it, a listing of pools
PromptReply == <<CR, LF, ">">>
FailureReply == <<CR, LF, CR, "e", LF, CR, ">">>
TaggedFailureReply == <<CR, LF>> \o TagReset \o <<CR, "e", LF, CR, ">">>
PoolListing == <<"name=", QUOTE, "a", QUOTE, SP, "ranges=", "1", SP, CR, LF, ">">>
TaggedPoolListing ==
    <<"name=", QUOTE>> \o TagGreen \o <<"a", QUOTE, SP, "ranges=", "1", SP, CR, LF, ">">>

Replies(w) ==
    IF w.by = 0 THEN {<<">">>}
    ELSE IF w.text = Cmd("get_address_pool") \o <<CR>>
         THEN {PromptReply, PoolListing, TaggedPoolListing}
         ELSE {PromptReply, FailureReply, TaggedFailureReply}

\* the object once RosApi.__init__ has returned: logged in, the prompt read, and
\* possibly the space that follows the prompt still unread
Init ==
    /\ call = NoCall /\ ret = <<>>
    /\ lpc = "connected"
    /\ username = "admin"
    /\ rx \in {<<"Login:", "Password:", ">">>, <<"Login:", "Password:", ">", SP>>}
    /\ timedout = {}
    /\ eof = FALSE
    /\ tn = "open"
    /\ cooked = From(SubSeq(rx, 4, Len(rx)), 0)
    /\ sent = <<write(0, <<username>>), write(0, Password)>>
    /\ log = <<<<"Telnet connected">>>>
    /\ pc = [c \in Callers |-> "idle"]
    /\ op = [c \in Callers |-> NoOp]
    /\ out = [c \in Callers |-> NoOut]
    /\ nops = 0
    /\ replied = 2

\* the caller enters an operation: the command is formatted and written, and the
\* caller sleeps
op_write(c) ==
    /\ pc[c] = "idle"
    /\ nops < MaxOps
    /\ \E name \in Ops :
          /\ sent' = Append(sent, write(c, Cmd(name)))
          /\ op' = [op EXCEPT ![c] = [name |-> name, ix |-> Len(sent) + 1]]
    /\ nops' = nops + 1
    /\ pc' = [pc EXCEPT ![c] = "sleep"]
    /\ UNCHANGED <<fnvars, loginvars, tn, cooked, log, out, replied>>

\* a mutating operation that writes its command again when the router has
\* reported a failure, and waits for the next answer
op_check_result_retry(c) ==
    /\ pc[c] = "sleep"
    /\ op[c].name \in MutatingOps
    /\ cooked' = <<>>
    /\ LET r == check_result(Where(op[c].name), Text(cooked))
       IN  IF r.raised # ""
           THEN /\ sent' = Append(sent, write(c, Cmd(op[c].name)))
                /\ UNCHANGED <<out, log, pc>>
           ELSE /\ out' = [out EXCEPT ![c] =
                              [name |-> op[c].name, ix |-> op[c].ix, raw |-> cooked,
                               handed |-> Text(cooked), raised |-> r.raised,
                               error_msg |-> r.error_msg, value |-> <<>>]]
                /\ log' = Append(log, r.logged)
                /\ pc' = [pc EXCEPT ![c] = "idle"]
                /\ sent' = sent
    /\ UNCHANGED <<fnvars, loginvars, tn, op, nops, replied>>

\* a mutating operation after its sleep: tn.read_very_eager() takes all that has
\* arrived, and the capture is handed to check_result
op_check_result(c) ==
    /\ pc[c] = "sleep"
    /\ op[c].name \in MutatingOps
    /\ cooked' = <<>>
    /\ LET r == check_result(Where(op[c].name), Text(cooked))
       IN  /\ out' = [out EXCEPT ![c] =
                         [name |-> op[c].name, ix |-> op[c].ix, raw |-> cooked,
                          handed |-> Text(cooked), raised |-> r.raised,
                          error_msg |-> r.error_msg, value |-> <<>>]]
           /\ log' = IF r.logged # <<>> THEN Append(log, r.logged) ELSE log
    /\ pc' = [pc EXCEPT ![c] = "idle"]
    /\ UNCHANGED <<fnvars, loginvars, tn, sent, op, nops, replied>>

\* a reading operation after its sleep: tn.read_very_eager() takes all that has
\* arrived, the capture is sanitized and the records are extracted
op_parse(c) ==
    /\ pc[c] = "sleep"
    /\ op[c].name \in ReadingOps
    /\ cooked' = <<>>
    /\ LET r == parse_address_pool(Text(cooked))
       IN  out' = [out EXCEPT ![c] =
                      [name |-> op[c].name, ix |-> op[c].ix, raw |-> cooked,
                       handed |-> r.handed, raised |-> r.raised,
                       error_msg |-> <<>>, value |-> r.value]]
    /\ pc' = [pc EXCEPT ![c] = "idle"]
    /\ UNCHANGED <<fnvars, loginvars, tn, sent, log, op, nops, replied>>

\* the router answers the oldest command it has not answered
router_reply ==
    /\ replied < Len(sent)
    /\ \E r \in Replies(sent[replied + 1]) :
          cooked' = cooked \o From(r, replied + 1)
    /\ replied' = replied + 1
    /\ UNCHANGED <<fnvars, loginvars, tn, sent, log, pc, op, out, nops>>

Next ==
    \/ \E c \in Callers : op_write(c)
    \/ \E c \in Callers : op_check_result(c)
    \/ \E c \in Callers : op_parse(c)
    \/ router_reply

Spec == Init /\ [][Next]_vars

(***************************************************************************)
(* Properties of check_result.                                             *)
(***************************************************************************)
\* a failure marker starts at position i of text t and its message ends before j:
\* CR LF CR, then characters other than LF, then LF CR
MarkerAt(t, i, j) ==
    /\ OccursAt(t, <<CR, LF, CR>>, i)
    /\ j >= i + 3
    /\ OccursAt(t, <<LF, CR>>, j)
    /\ \A k \in (i + 3)..(j - 1) : t[k] # LF

HasMarker(t) == \E i \in 1..Len(t), j \in 1..Len(t) : MarkerAt(t, i, j)

\* the message of the leftmost failure marker of t
MarkerMessage(t) ==
    LET i == CHOOSE a \in 1..Len(t) :
                 /\ \E j \in 1..Len(t) : MarkerAt(t, a, j)
                 /\ \A b \in 1..(a - 1) : \A j \in 1..Len(t) : ~MarkerAt(t, b, j)
        j == CHOOSE b \in 1..Len(t) : MarkerAt(t, i, b)
    IN  SubSeq(t, i + 3, j - 1)

\* C4: check_result raises an error that carries the operation name and the message
\* of the failure marker whenever the text holds a failure marker, and otherwise
\* returns normally and logs "<where> Success".
C4_CheckResultOutcome ==
    (call.fn = "check_result" /\ ret # <<>>) =>
        IF HasMarker(call.result)
        THEN /\ ret[1].raised = "RosError"
             /\ ret[1].error_msg = <<call.where, "Failed", MarkerMessage(call.result)>>
             /\ ret[1].logged = <<>>
        ELSE /\ ret[1].raised = ""
             /\ ret[1].logged = <<call.where, "Success">>

\* check_result has raised for "Add Pool" on a text that holds a failure marker
\* with a message
C4_Witness ==
    /\ call.fn = "check_result"
    /\ call.where = "Add Pool"
    /\ call.result = <<CR, LF, CR, "e", LF, CR>>
    /\ ret # <<>>
    /\ ret[1].raised = "RosError"
    /\ ret[1].error_msg = <<"Add Pool", "Failed", <<"e">>>>

(***************************************************************************)
(* Properties of untag.                                                    *)
(***************************************************************************)
\* C5: sanitization is idempotent, untag(untag(x)) = untag(x) for every text x.
C5_Idempotent ==
    (call.fn = "untag" /\ Len(ret) = 2) => ret[2] = ret[1]

\* position i of text t lies inside an occurrence of one of the six sequences
InTag(t, i) ==
    \E k \in 1..Len(Tags) : \E j \in 1..i :
        OccursAt(t, Tags[k], j) /\ i < j + Len(Tags[k])

\* the characters of t, from position i on, that lie in no occurrence
RECURSIVE OutsideTags(_, _)
OutsideTags(t, i) ==
    IF i > Len(t) THEN <<>>
    ELSE (IF InTag(t, i) THEN <<>> ELSE <<t[i]>>) \o OutsideTags(t, i + 1)

RECURSIVE IsSubsequence(_, _)
IsSubsequence(a, b) ==
    IF a = <<>> THEN TRUE
    ELSE IF b = <<>> THEN FALSE
    ELSE IF Head(a) = Head(b) THEN IsSubsequence(Tail(a), Tail(b))
    ELSE IsSubsequence(a, Tail(b))

\* C6: the output of untag holds no occurrence of any of the six sequences, and
\* the characters of the input outside every occurrence are in the output, unchanged
\* and in their order.
C6_OutputSanitized ==
    (call.fn = "untag" /\ ret # <<>>) =>
        /\ \A k \in 1..Len(Tags) : ~Contains(ret[1], Tags[k])
        /\ IsSubsequence(OutsideTags(call.text, 1), ret[1])

(***************************************************************************)
(* Properties of login.                                                    *)
(***************************************************************************)
Writes(text) == {i \in 1..Len(sent) : sent[i].by = 0 /\ sent[i].text = text \o <<CR>>}

\* C2: with a username, the username is sent only after "Login:" has been received,
\* the password only after "Password:" has been received, each credential once, and
\* login returns only after the prompt marker has been received.
C2_HandshakeOrder ==
    username # "" =>
        /\ Writes(<<username>>) # {} => "Login:" \in Range(rx)
        /\ Writes(Password) # {} => "Password:" \in Range(rx)
        /\ Cardinality(Writes(<<username>>)) <= 1
        /\ Cardinality(Writes(Password)) <= 1
        /\ lpc = "connected" => ">" \in Range(rx)

\* C3: once a wait of the handshake has reached its timeout without its text, login
\* has ended with an authentication-timeout error: it is at no later statement, it
\* sends no further credential and it never reports the session connected.
C3_TimeoutEndsLogin ==
    timedout # {} => lpc = "AuthenticationTimeout"

(***************************************************************************)
(* Properties of the operations.                                           *)
(***************************************************************************)
\* C1: two operations of different callers never interleave: no caller writes its
\* command or reads the stream while another caller's command is written and its
\* response not yet harvested.
C1_NoInterleaving ==
    \A a \in Callers, b \in Callers :
        a # b => ~(pc[a] = "sleep" /\ pc[b] = "sleep")

\* C7: the text an operation hands to check_result or to the extraction is the
\* sanitized capture, so that the failure detected is that of the sanitized text.
C7_SanitizedBeforeUse ==
    \A c \in Callers :
        out[c].name # "none" =>
            /\ out[c].handed = untag(Text(out[c].raw))
            /\ out[c].name \in MutatingOps =>
                  out[c].raised = check_result(Where(out[c].name),
                                               untag(Text(out[c].raw))).raised

\* C10: an operation whose command the peer never answers ends with a
\* command-timeout error, not with a success or an empty result.
C10_SilentPeerTimesOut ==
    \A c \in Callers :
        (out[c].name # "none" /\ out[c].raw = <<>> /\ replied < out[c].ix) =>
            out[c].raised = "CommandTimeout"

(***************************************************************************)
(* Properties of the extraction.                                           *)
(***************************************************************************)
StatusCodes == {<<>>, <<"X">>, <<"I">>, <<"X", "I">>}

StatusOf(flag) ==
    CASE flag = <<>> -> "enabled"
      [] flag = <<"X">> -> "disabled"
      [] flag = <<"I">> -> "invalid"
      [] flag = <<"X", "I">> -> "disabled and invalid"

\* C8: in get_pppoe_server and in get_ppp_secret the flag of every row is mapped
\* "" to enabled, X to disabled, I to invalid, XI to disabled and invalid, and a
\* row with any other flag raises a parse error.
C8_StatusMappingTotal ==
    (call.fn \in {"get_pppoe_server", "get_ppp_secret"} /\ ret # <<>>) =>
        IF \A i \in 1..Len(call.pieces) : call.pieces[i] \in StatusCodes
        THEN /\ ret[1].raised = ""
             /\ Len(ret[1].value) = Len(call.pieces)
             /\ \A i \in 1..Len(call.pieces) :
                   ret[1].value[i].status = StatusOf(call.pieces[i])
        ELSE ret[1].raised = "ParseMismatch"

\* the entries among the pieces of a capture, as the records the claim expects
RECURSIVE ExpectedPools(_)
ExpectedPools(ps) ==
    IF ps = <<>> THEN <<>>
    ELSE (IF Head(ps) \in PoolEntries
          THEN <<<< <<Head(ps)[3]>>, <<Head(ps)[7]>> >>>>
          ELSE <<>>) \o ExpectedPools(Tail(ps))

\* C9: for a response that holds N address-pool entries, get_address_pool returns
\* N records in source order, each with the name of its entry without the quotes
\* and the ranges of its entry up to the next whitespace.
C9_PoolRecords ==
    (call.fn = "get_address_pool" /\ ret # <<>>) =>
        ret[1].value = ExpectedPools(call.pieces)

(***************************************************************************)
(* Properties of TelnetCtrl.write.                                         *)
(***************************************************************************)
\* what the write of the command of an operation puts on the stream
Framed(name) == Cmd(name) \o <<CR>>

\* C11: write transmits the command verbatim followed by exactly one carriage
\* return and nothing else; the two login credentials and the command of every
\* operation, running or finished, are on the stream in this framing, and nothing
\* else is on the stream.
C11_WriteFraming ==
    /\ Len(sent) = 2 + nops
    /\ sent[1].text = <<username, CR>>
    /\ sent[2].text = Password \o <<CR>>
    /\ \A i \in 3..Len(sent) : \E name \in Ops : sent[i].text = Framed(name)
    /\ \A c \in Callers :
          /\ pc[c] = "sleep" => sent[op[c].ix].text = Framed(op[c].name)
          /\ out[c] # NoOut => sent[out[c].ix].text = Framed(out[c].name)

\* one caller has finished remove_address_pool and the other has written
\* add_address_pool, each command on the stream with its carriage return
C11_Witness ==
    /\ out[1] # NoOut /\ out[1].name = "remove_address_pool"
    /\ sent[out[1].ix].text = Cmd("remove_address_pool") \o <<CR>>
    /\ pc[2] = "sleep" /\ op[2].name = "add_address_pool"
    /\ sent[op[2].ix].text = Cmd("add_address_pool") \o <<CR>>

(***************************************************************************)
(* Properties of TelnetCtrl.login without a username.                      *)
(***************************************************************************)
\* C12: when no username is configured, login sends nothing to the peer, never
\* waits for the login banner or the password banner (it is at no step of the
\* credential exchange and no such wait has timed out), and declares the session
\* connected only from the wait for the prompt marker: the marker has been
\* received, unless the peer closed the connection with text pending.
C12_NoUsernameLogin ==
    username = "" =>
        /\ sent = <<>>
        /\ lpc \in {"open", "wait_finish", "connected", "EOFError"}
        /\ timedout = {}
        /\ lpc = "connected" =>
              /\ Contains(rx, <<">">>) \/ (eof /\ rx # <<>>)
              /\ log = <<<<"Telnet connected">>>>
        /\ lpc # "connected" => log = <<>>

\* login without a username has declared the session connected although the peer
\* had shown both banners before its prompt
C12_Witness ==
    /\ username = ""
    /\ lpc = "connected"
    /\ rx = <<"Login:", "Password:", ">">>
    /\ ~eof
    /\ sent = <<>>

(***************************************************************************)
(* Properties of the reading operations.                                   *)
(***************************************************************************)
\* keywords every match of the record pattern of an operation holds
Required(fn) ==
    CASE fn = "get_address_pool" -> {"name=", "ranges="}
      [] fn = "get_dhcp_server_client" -> {"mac-", "server=", "host-name="}
      [] fn = "get_dhcp_server_network" -> {"gateway=", "netmask=", "dns-server="}
      [] fn = "get_ppp_profile_name" -> {"name="}
      [] fn = "get_pppoe_server" ->
            {"service-name=", "interface=", "max-mtu=", "max-mru=", "authentication=",
             "default-profile="}
      [] fn = "get_ppp_profile" -> {"name=", "local-", "remote-", "use-encryption=", "dns-server="}
      [] fn = "get_ppp_secret" -> {"name=", "service=", "password=", "profile="}

Count(t, c) == Cardinality({i \in 1..Len(t) : t[i] = c})

\* C13: every reading operation returns normally whatever the response is; a
\* response that lacks a keyword of the record pattern (so that the pattern matches
\* nowhere) yields the empty list, and there are never more records than the text
\* holds occurrences of each keyword of the pattern.
C13_NoMatchEmptyList ==
    (call.fn \in ReadFns /\ ret # <<>>) =>
        /\ ret[1].raised = ""
        /\ (\E k \in Required(call.fn) : ~Contains(call.capture, <<k>>))
              => ret[1].value = <<>>
        /\ \A k \in Required(call.fn) : Len(ret[1].value) <= Count(call.capture, k)

\* get_ppp_profile has returned the empty list for the legend and half a row
C13_Witness ==
    /\ call.fn = "get_ppp_profile"
    /\ call.capture = Legend \o CutOf(PPPProfileRow(0, "a"))
    /\ ret # <<>>
    /\ ret[1].raised = ""
    /\ ret[1].value = <<>>

(***************************************************************************)
(* Properties of the lookups.                                              *)
(***************************************************************************)
\* the records the reading operation of a lookup extracts from the capture
Extracted(fn, capture) ==
    CASE fn = "get_dhcp_server_network_number" -> parse_dhcp_server_network(capture).value
      [] fn = "get_pppoe_server_number" -> parse_pppoe_server(capture).value
      [] fn = "get_ppp_secret_number" -> parse_ppp_secret(capture).value

KeyField(fn) ==
    CASE fn = "get_dhcp_server_network_number" -> "address"
      [] fn = "get_pppoe_server_number" -> "service_name"
      [] fn = "get_ppp_secret_number" -> "name"

\* C14: each lookup returns the num of an extracted record whose key field equals
\* the requested value when there is such a record, and raises RosError exactly
\* when no extracted record has that key, the empty list included.
C14_LookupOutcome ==
    (call.fn \in LookupFns /\ ret # <<>>) =>
        LET list == Extracted(call.fn, call.capture)
            hits == {i \in 1..Len(list) : list[i][KeyField(call.fn)] = call.key}
        IN  /\ ret[1].raised = "RosError" <=> hits = {}
            /\ ret[1].raised \in {"RosError", ""}
            /\ hits # {} => \E i \in hits : ret[1].value = list[i].num

\* get_ppp_secret_number has returned the number of the second of two secrets
C14_Witness ==
    /\ call.fn = "get_ppp_secret_number"
    /\ call.pieces = <<"a", "b">>
    /\ call.first = 0
    /\ call.key = <<"b">>
    /\ ret # <<>>
    /\ ret[1].raised = ""
    /\ ret[1].value = <<"1">>

(***************************************************************************)
(* Properties of the mutating operations.                                  *)
(***************************************************************************)
\* what one step does to the stream of commands and to the callers
C15_Step ==
    /\ \A c \in Callers :
          (pc[c] = "idle" /\ pc'[c] = "sleep") =>
              /\ sent' = Append(sent, [by |-> c, text |-> Cmd(op'[c].name) \o <<CR>>])
              /\ cooked' = cooked /\ out' = out
    /\ \A c \in Callers :
          (pc[c] = "sleep" /\ pc'[c] = "idle" /\ op[c].name \in MutatingOps) =>
              /\ sent' = sent
              /\ cooked' = <<>>
              /\ out'[c].ix = op[c].ix
              /\ out'[c].handed = Text(cooked)
              /\ \/ out'[c].raised = "RosError" /\ log' = log
                 \/ /\ out'[c].raised = ""
                    /\ log' = Append(log, <<Where(op[c].name), "Success">>)
    /\ (\A c \in Callers : pc'[c] = pc[c]) => (sent' = sent /\ out' = out /\ log' = log)
    /\ \A c \in Callers : pc[c] = "sleep" => pc'[c] \in {"sleep", "idle"}

Schema(fn) ==
    CASE fn = "get_dhcp_server_client" -> {"ip", "mac", "server", "hostname"}
      [] fn = "get_dhcp_server_network" ->
            {"num", "address", "gateway", "netmask", "dns_server"}
      [] fn = "get_pppoe_server" ->
            {"num", "status", "service_name", "interface", "max_mtu", "max_mru",
             "authentication", "default_profile"}
      [] fn = "get_ppp_profile" ->
            {"name", "local_address", "remote_address", "use_encryption", "dns_server"}
      [] fn = "get_ppp_secret" ->
            {"num", "status", "name", "service", "password", "profile"}

\* C16: all records returned by one extraction call have the same key set, the
\* one the schema of the operation fixes, whatever the response text is (an
\* address pool is a pair: name, ranges).
C16_SchemaKeys ==
    (call.fn \in ReadFns /\ ret # <<>>) =>
        \A i \in 1..Len(ret[1].value) :
            IF call.fn = "get_address_pool" THEN DOMAIN ret[1].value[i] = 1..2
            ELSE IF call.fn = "get_ppp_profile_name" THEN TRUE
            ELSE DOMAIN ret[1].value[i] = Schema(call.fn)

\* get_pppoe_server has returned two records, of a row without a flag and of a
\* disabled row, both with every key of the schema
C16_Witness ==
    /\ call.fn = "get_pppoe_server"
    /\ call.pieces = << <<>>, <<"X">> >>
    /\ ret # <<>>
    /\ Len(ret[1].value) = 2
    /\ ret[1].value[1].status = "enabled"
    /\ ret[1].value[2].status = "disabled"
    /\ DOMAIN ret[1].value[1] = DOMAIN ret[1].value[2]

\* C17: in get_dhcp_server_network, get_pppoe_server and get_ppp_secret the num of
\* every record extracted from a listing of whole rows is the complete row number
\* the console printed for the row of that record, two-digit numbers included.
C17_CompleteRowNumber ==
    (call.fn \in {"get_dhcp_server_network", "get_pppoe_server", "get_ppp_secret"}
        /\ ret # <<>>) =>
        IF call.fn = "get_dhcp_server_network"
        THEN (\A j \in 1..Len(call.pieces) : call.pieces[j] \in Names) =>
                 \A i \in 1..Len(ret[1].value) :
                     \E j \in 1..Len(call.pieces) :
                         /\ ret[1].value[i].address = <<call.pieces[j]>>
                         /\ ret[1].value[i].num = NumText(call.first + j - 1)
        ELSE \A i \in 1..Len(ret[1].value) :
                 ret[1].value[i].num = NumText(call.first + i - 1)

(***************************************************************************)
(* Properties of the stream as a resource.                                 *)
(***************************************************************************)
\* C18: the stream is released on every exit path: when login has ended with an
\* error (the peer closed the connection, the socket failed), the stream that
\* login opened is closed.
C18_StreamReleased ==
    lpc \in {"EOFError", "socket.error"} => tn = "closed"

(***************************************************************************)
(* Properties of the failure pattern of check_result.                      *)
(***************************************************************************)
\* a line of t begins at position i with two carriage returns, and its text ends
\* before the LF CR at position j
TwoCRLineAt(t, i, j) ==
    /\ i = 1 \/ t[i - 1] = LF
    /\ OccursAt(t, <<CR, CR>>, i)
    /\ j >= i + 2
    /\ OccursAt(t, <<LF, CR>>, j)
    /\ \A k \in (i + 2)..(j - 1) : t[k] # LF

\* C19 as stated: check_result reports a failure exactly when the text holds a
\* line beginning with two carriage returns, then text, then LF CR, and the
\* message is the text between them.
C19_TwoCRLine ==
    (call.fn = "check_result" /\ ret # <<>>) =>
        /\ ret[1].raised = "RosError" <=>
               \E i \in 1..Len(call.result), j \in 1..Len(call.result) :
                   TwoCRLineAt(call.result, i, j)
        /\ ret[1].raised = "RosError" =>
               \E i \in 1..Len(call.result), j \in 1..Len(call.result) :
                   /\ TwoCRLineAt(call.result, i, j)
                   /\ ret[1].error_msg[3] = SubSeq(call.result, i + 2, j - 1)

\* C19: check_result reports a failure if and only if the text holds CR LF CR (a
\* line break and a line beginning with a carriage return), then text without
\* a newline, then LF CR; the message is exactly the text between the two.
C19_CRLFCRLine ==
    (call.fn = "check_result" /\ ret # <<>>) =>
        /\ ret[1].raised = "RosError" <=> HasMarker(call.result)
        /\ ret[1].raised = "RosError" =>
               \E i \in 1..Len(call.result), j \in 1..Len(call.result) :
                   /\ MarkerAt(call.result, i, j)
                   /\ ret[1].error_msg[3] = SubSeq(call.result, i + 3, j - 1)

\* check_result has raised for a text that holds CR LF CR e f LF CR, the message
\* being e f
C19_Witness ==
    /\ call.fn = "check_result"
    /\ call.where = "Remove Address Pool"
    /\ call.result = <<CR, LF, CR, "e", "f", LF, CR>>
    /\ ret # <<>>
    /\ ret[1].raised = "RosError"
    /\ ret[1].error_msg[3] = <<"e", "f">>

\* the positions of text t at which a failure marker starts
MarkerStarts(t) ==
    {i \in 1..Len(t) : \E j \in 1..Len(t) : MarkerAt(t, i, j)}

\* C20: when the text holds several failure lines, check_result raises one error,
\* whose message is that of the first of them in the text; the messages of the
\* later ones are not in the error.
C20_FirstMatchOnly ==
    (call.fn = "check_result" /\ ret # <<>>
        /\ Cardinality(MarkerStarts(call.result)) >= 2) =>
        /\ Len(ret) = 1
        /\ ret[1].raised = "RosError"
        /\ ret[1].error_msg = <<call.where, "Failed", MarkerMessage(call.result)>>

\* check_result has raised for a text with the failure lines e and f, in this
\* order, and the error carries e
C20_Witness ==
    /\ call.fn = "check_result"
    /\ call.result = FailureLine(<<"e">>) \o FailureLine(<<"f">>)
    /\ ret # <<>>
    /\ ret[1].raised = "RosError"
    /\ ret[1].error_msg[3] = <<"e">>

(***************************************************************************)
(* Properties of the capture of an operation.                              *)
(***************************************************************************)
\* the text, among the bytes of buf, that the router emitted in reply to the
\* command at index ix of sent
ReplyIn(buf, ix) ==
    LET Mine(b) == b[2] = ix IN Text(SelectSeq(buf, Mine))

\* C21: a mutating operation has returned normally (its success entry logged)
\* only if the router did not answer its command with a failure marker: the
\* reply to its command, whether still unread or captured by any operation,
\* holds no failure marker, however late it arrived.
C21_SuccessOnlyWithoutFailure ==
    \A c \in Callers :
        (out[c] # NoOut /\ out[c].name \in MutatingOps /\ out[c].raised = "") =>
            /\ ~HasMarker(ReplyIn(cooked, out[c].ix))
            /\ \A d \in Callers :
                  out[d] # NoOut => ~HasMarker(ReplyIn(out[d].raw, out[c].ix))

\* only the first caller has used the session
Sequential ==
    /\ pc[2] = "idle" /\ out[2] = NoOut
    /\ \A i \in 1..Len(sent) : sent[i].by \in {0, 1}

\* C23: under sequential use the text an operation validates or parses consists
\* only of bytes the router emitted in reply to the command of that operation:
\* no byte left after the login prompt and no byte of the reply to an earlier
\* command is in its capture.
C23_OwnReplyOnly ==
    (Sequential /\ out[1] # NoOut) =>
        \A k \in 1..Len(out[1].raw) : out[1].raw[k][2] = out[1].ix

(***************************************************************************)
(* Properties of the commands.                                             *)
(***************************************************************************)
\* C22: add_dhcp_server, add_pppoe_server, add_ppp_secret and
\* set_ppp_secret_status format a command with disabled=no when enabled is true
\* and with disabled=yes when enabled is false.
C22_EnabledMeansNotDisabled ==
    (call.fn \in {"add_dhcp_server", "add_pppoe_server", "add_ppp_secret",
                  "set_ppp_secret_status"} /\ ret # <<>>) =>
        Contains(ret[1], <<" disabled=", IF call.enabled THEN "no" ELSE "yes">>)

(***************************************************************************)
(* Properties of set_pppoe_server_dns.                                     *)
(***************************************************************************)
\* C24: set_pppoe_server_dns has two outcomes.  When a server record has the
\* number and a non-empty default profile, exactly one command that sets the dns
\* server of that profile is written and its reply is validated; otherwise
\* nothing is written and RosError is raised, no other error.
C24_TwoOutcomes ==
    (call.fn = "set_pppoe_server_dns" /\ ret # <<>>) =>
        LET servers == parse_pppoe_server(call.capture).value
            hits == {i \in 1..Len(servers) :
                        /\ servers[i].num = call.numbers
                        /\ servers[i].default_profile # <<>>}
        IN  IF hits # {}
            THEN /\ \E i \in hits :
                       ret[1].written =
                           <<[by |-> 1,
                              text |-> <<"/ppp profile set numbers=">>
                                          \o servers[i].default_profile
                                          \o <<" dns-server=", call.new_dns, CR>>]>>
                 /\ ret[1].raised =
                       check_result("Set PPPoE Server DNS", call.rc).raised
            ELSE /\ ret[1].written = <<>>
                 /\ ret[1].raised = "RosError"

(***************************************************************************)
(* Properties of the lookups with several matching records.                *)
(***************************************************************************)
Max(S) == CHOOSE x \in S : \A y \in S : x >= y

\* C25: when several extracted records carry the requested key, each lookup
\* returns the num of the last of them in source order, not of the first.
C25_LastMatchWins ==
    (call.fn \in LookupFns /\ ret # <<>>) =>
        LET list == Extracted(call.fn, call.capture)
            hits == {i \in 1..Len(list) : list[i][KeyField(call.fn)] = call.key}
        IN  Cardinality(hits) >= 2 =>
                /\ ret[1].raised = ""
                /\ ret[1].value = list[Max(hits)].num
                /\ ret[1].value # list[Min(hits)].num

\* get_pppoe_server_number has returned 1 for a listing whose rows 0 and 1 both
\* carry the service name asked for
C25_Witness ==
    /\ call.fn = "get_pppoe_server_number"
    /\ call.pieces = <<"a", "a">>
    /\ call.first = 0
    /\ call.key = <<"a">>
    /\ ret # <<>>
    /\ ret[1].raised = ""
    /\ ret[1].value = <<"1">>

====
